---- MODULE Spec2Model ----
(***************************************************************************)
(* Model of the network delivery engine of the statsd sink:                *)
(*   TcpConnector / TcpService  (src/sinks/util/service/net/tcp.rs)        *)
(*   StatsdSink::run_inner      (src/sinks/statsd/sink.rs)                 *)
(***************************************************************************)
EXTENDS Integers, Sequences, FiniteSets, TLC

(***************************************************************************)
(* Bounds of the model.                                                    *)
(***************************************************************************)
\* total number of Service::call invocations explored
MaxCalls == 3
\* total number of failing connect attempts explored
MaxFails == 2
\* largest request buffer length explored
MaxLen == 1

(***************************************************************************)
(* State.                                                                  *)
(***************************************************************************)
VARIABLES
    send_buffer_size, \* TcpConnector.send_buffer_size: "None" or "Some"
    state,            \* tag of TcpService.state
    stream,           \* the TcpStream held by Connected (0: the state holds none)
    rx,               \* the oneshot receiver held by Sending (0: none)
    fut,              \* the connect_backoff future held by Connecting
    chans,            \* the oneshot channels created by call
    futs,             \* the write futures returned by call
    nconn,            \* number of TcpStreams established so far
    live,             \* the TcpStreams that have not been dropped
    wlog,             \* write_all operations performed, in order
    cbs,              \* history: one record per connect_backoff invocation
    ret,              \* what the last poll_ready returned
    callOut,          \* how the last call ended: a future, or a panic
    panics,           \* number of calls that panicked
    input,            \* the events of the input stream of run_inner
    reqs,             \* the request results the builder produces from input, in order
    dpc,              \* where the driver is: off, pull, poll, call, done, failed
    dnext,            \* index in reqs of the next result the driver pulls
    inflight,         \* the calls the driver awaits: (future, index in reqs)
    submitted,        \* indexes in reqs of the requests passed to call, in order
    completed,        \* indexes in reqs of the requests whose call resolved, in order
    flog,             \* the finalizations made: (event, status), in order
    encErrs,          \* dropped-event counts of the StatsdEncodingError events emitted
    hc,               \* the healthchecks run so far and the answer of the last one
    fname,            \* the function a functional specification applies
    fpc,              \* "ready" before it is applied, "done" after
    arg,              \* its argument
    fout              \* its result

svcVars == <<send_buffer_size, state, stream, rx, fut, chans, futs, nconn, live,
             wlog, cbs, ret, callOut, panics>>

pipeVars == <<input, reqs, dpc, dnext, inflight, submitted, completed, flog, encErrs>>

auxVars == <<hc, fname, fpc, arg, fout>>

NoFut == [pc |-> "none", io |-> "none", timer |-> "idle", n |-> 0]

(***************************************************************************)
(* TcpError (tcp.rs 27-49), as far as the service can produce it.          *)
(***************************************************************************)
ConnectErrors == {"FailedToResolve", "NoAddresses", "FailedToConfigure", "FailedToConnect"}

ConnectResults == {"Ok"} \cup ConnectErrors

\* what the network does to one connect attempt
ConnectEnvs == [dns : {"ok", "error", "empty"}, socket : {"ok", "error"},
                sndbuf : {"ok", "rejected"}, tcp : {"ok", "refused"}]

\* if let Some(send_buffer_size) = self.send_buffer_size (tcp.rs 105-109):
\* "warn" when the socket rejects the option, which is logged
set_send_buffer_size(env, sbs) ==
    IF sbs = "Some" /\ env.sndbuf = "rejected" THEN "warn" ELSE "ok"

\* mutant: a rejected send buffer size fails the connect
socket_connect_strict(env, sb) ==
    IF sb = "warn" THEN "FailedToConfigure"
    ELSE IF env.tcp = "refused" THEN "FailedToConnect"
    ELSE "Ok"

\* socket.connect(addr).await (tcp.rs 111-113), after the option was applied
\* with outcome sb
socket_connect(env, sb) ==
    IF env.tcp = "refused" THEN "FailedToConnect" ELSE "Ok"

\* TcpConnector::connect (tcp.rs 89-114): the first failing step decides the
\* error; a rejected send buffer size is only logged.
connect(env, sbs) ==
    IF env.dns = "error" THEN "FailedToResolve"
    ELSE IF env.dns = "empty" THEN "NoAddresses"
    ELSE IF env.socket = "error" THEN "FailedToConfigure"
    ELSE socket_connect(env, set_send_buffer_size(env, sbs))

(***************************************************************************)
(* Backoff (tcp.rs 118-120): ExponentialBackoff::from_millis(2)            *)
(*   .factor(250).max_delay(60 s).                                         *)
(***************************************************************************)
BackoffBase == 2

BackoffFactor == 250

BackoffMaxDelay == 60000

RECURSIVE Pow(_, _)
Pow(b, k) == IF k = 0 THEN 1 ELSE b * Pow(b, k - 1)

Min(a, b) == IF a <= b THEN a ELSE b

\* mutant: the delay is not clamped to the maximum
backoff_next_unclamped(k) == BackoffBase * Pow(BackoffFactor, k)

\* the delay (ms) of the k-th call of backoff.next(), k = 0, 1, ...: the base
\* times the factor k times, each step clamped to the maximum
RECURSIVE backoff_next(_)
backoff_next(k) ==
    IF k = 0 THEN Min(BackoffBase, BackoffMaxDelay)
    ELSE Min(backoff_next(k - 1) * BackoffFactor, BackoffMaxDelay)

(***************************************************************************)
(* History of the connect_backoff invocations.                             *)
(***************************************************************************)
NewCb == [attempts |-> 0, fails |-> 0, errs |-> 0, sleeps |-> <<>>, est |-> 0, conn |-> 0]

RECURSIVE SumFails(_)
SumFails(h) == IF h = <<>> THEN 0 ELSE Head(h).fails + SumFails(Tail(h))

TotalFails == SumFails(cbs)

CurCb(s) == s.cbs[Len(s.cbs)]

SetCb(s, c) == [s EXCEPT !.cbs = [s.cbs EXCEPT ![Len(s.cbs)] = c]]

IsErr(r) == r \in ConnectErrors

(***************************************************************************)
(* TcpConnector::connect_backoff (tcp.rs 116-136), polled once.  s is the  *)
(* service with state Connecting; r is the result of a connect attempt     *)
(* that begins in this poll ("pending": it does not complete in it).       *)
(* The result has out = 0 when the future is pending, and the new stream   *)
(* when it is ready.                                                       *)
(***************************************************************************)
\* self.connect().await begins
begin_connect(s, r) ==
    LET c == CurCb(s) IN
    SetCb([s EXCEPT !.fut.pc = "connect", !.fut.io = r, !.fut.timer = "idle"],
          [c EXCEPT !.attempts = @ + 1, !.fails = @ + (IF IsErr(r) THEN 1 ELSE 0)])

\* Ok((addr, stream)) => emit!(TcpSocketConnectionEstablished); return stream
connect_ok(s) ==
    LET c == CurCb(s) id == s.nconn + 1 IN
    [SetCb(s, [c EXCEPT !.est = @ + 1, !.conn = id])
       EXCEPT !.nconn = id, !.live = @ \cup {id}, !.out = id]

\* mutant: the failure is slept on, but no connection-error event is emitted
connect_err_silent(s) ==
    LET c == CurCb(s) IN
    [SetCb(s, [c EXCEPT !.sleeps = Append(@, backoff_next(s.fut.n))])
       EXCEPT !.fut.pc = "sleep", !.fut.io = "none", !.fut.timer = "running",
              !.fut.n = @ + 1, !.out = 0]

\* Err(error) => emit!(TcpSocketOutgoingConnectionError); sleep(backoff.next().unwrap())
connect_err(s) ==
    LET c == CurCb(s) IN
    [SetCb(s, [c EXCEPT !.errs = @ + 1, !.sleeps = Append(@, backoff_next(s.fut.n))])
       EXCEPT !.fut.pc = "sleep", !.fut.io = "none", !.fut.timer = "running",
              !.fut.n = @ + 1, !.out = 0]

RECURSIVE connect_backoff(_, _)
connect_backoff(s, r) ==
    CASE s.fut.pc = "start" -> connect_backoff(begin_connect(s, r), r)
      [] s.fut.pc = "connect" ->
            IF s.fut.io = "pending" THEN [s EXCEPT !.out = 0]
            ELSE IF s.fut.io = "Ok" THEN connect_ok(s)
            ELSE connect_backoff(connect_err(s), r)
      [] s.fut.pc = "sleep" ->
            IF s.fut.timer = "running" THEN [s EXCEPT !.out = 0]
            ELSE connect_backoff(begin_connect(s, r), r)

(***************************************************************************)
(* The oneshot channel of call (tcp.rs 218): val = -1 while nothing has    *)
(* been sent, 0 for None, the stream for Some(stream).                     *)
(***************************************************************************)
NewChan(tx) == [tx |-> tx, val |-> -1, rxAlive |-> TRUE, recvd |-> 0]

(***************************************************************************)
(* TcpService::poll_ready (tcp.rs 187-215).                                *)
(***************************************************************************)
\* mutant: the backoff generator is kept across connect_backoff invocations
poll_disconnected_shared(s) ==
    [s EXCEPT !.state = "Connecting",
              !.fut = [pc |-> "start", io |-> "none", timer |-> "idle",
                       n |-> SumFails(s.cbs)],
              !.cbs = Append(@, NewCb)]

\* Disconnected => Connecting(Box::pin(connector.connect_backoff()))
poll_disconnected(s) ==
    [s EXCEPT !.state = "Connecting",
              !.fut = [pc |-> "start", io |-> "none", timer |-> "idle", n |-> 0],
              !.cbs = Append(@, NewCb)]

\* mutant: a failed connect attempt is returned to the caller of poll_ready
poll_connecting_surface(s, r) ==
    LET p == connect_backoff(s, r) IN
    IF IsErr(s.fut.io)
    THEN [s EXCEPT !.state = "Disconnected", !.fut = NoFut, !.ret = s.fut.io]
    ELSE IF p.out = 0 THEN [p EXCEPT !.ret = "Pending"]
    ELSE [p EXCEPT !.state = "Connected", !.stream = p.out, !.fut = NoFut]

\* mutant: a poll that finds the connect pending starts another connect_backoff
poll_connecting_restart(s, r) ==
    LET p == connect_backoff(s, r) IN
    IF p.out = 0 THEN [p EXCEPT !.ret = "Pending", !.cbs = Append(@, NewCb)]
    ELSE [p EXCEPT !.state = "Connected", !.stream = p.out, !.fut = NoFut]

\* Connecting(fut) => Connected(ready!(fut.poll_unpin(cx)))
poll_connecting(s, r) ==
    LET p == connect_backoff(s, r) IN
    IF p.out = 0 THEN [p EXCEPT !.ret = "Pending"]
    ELSE [p EXCEPT !.state = "Connected", !.stream = p.out, !.fut = NoFut]

\* mutant: after a failed write the service keeps waiting in Sending
recv_state_stuck(s, val) ==
    IF val > 0 THEN [s EXCEPT !.state = "Connected", !.stream = val, !.rx = 0]
    ELSE [s EXCEPT !.ret = "Pending"]

\* mutant: poll_ready returns when the handoff says the stream is lost
recv_state_return(s, val) ==
    IF val > 0 THEN [s EXCEPT !.state = "Connected", !.stream = val, !.rx = 0]
    ELSE [s EXCEPT !.state = "Disconnected", !.rx = 0, !.ret = "Pending"]

\* mutant: the stream handed back by a successful write is not kept
recv_state_fresh(s, val) ==
    [s EXCEPT !.state = "Disconnected", !.rx = 0, !.live = @ \ {val}]

\* Ok(Some(stream)) => Connected(stream), Ok(None) => Disconnected
recv_state(s, val) ==
    IF val > 0 THEN [s EXCEPT !.state = "Connected", !.stream = val, !.rx = 0]
    ELSE [s EXCEPT !.state = "Disconnected", !.rx = 0]

\* mutant: readiness does not wait for the handoff of the write in flight
poll_sending_nowait(s) ==
    LET ch == s.chans[s.rx] IN
    IF ch.val >= 0 /\ ch.recvd = 0
    THEN recv_state([s EXCEPT !.chans[s.rx].recvd = 1], ch.val)
    ELSE IF ch.tx = "alive"
    THEN [s EXCEPT !.state = "Connected", !.stream = s.nconn, !.rx = 0]
    ELSE [s EXCEPT !.ret = "ServiceStreamChannelClosed"]

\* mutant: a closed handoff channel is taken for a lost connection
poll_sending_reconnect(s) ==
    LET ch == s.chans[s.rx] IN
    IF ch.val >= 0 /\ ch.recvd = 0
    THEN recv_state([s EXCEPT !.chans[s.rx].recvd = 1], ch.val)
    ELSE IF ch.tx = "alive" THEN [s EXCEPT !.ret = "Pending"]
    ELSE [s EXCEPT !.state = "Disconnected", !.rx = 0]

\* mutant: the handoff is read without being taken from the channel
poll_sending_replay(s) ==
    LET ch == s.chans[s.rx] IN
    IF ch.val >= 0 THEN recv_state(s, ch.val)
    ELSE IF ch.tx = "alive" THEN [s EXCEPT !.ret = "Pending"]
    ELSE [s EXCEPT !.ret = "ServiceStreamChannelClosed"]

\* Sending(fut) => match ready!(fut.poll_unpin(cx))
poll_sending(s) ==
    LET ch == s.chans[s.rx] IN
    IF ch.val >= 0 /\ ch.recvd = 0
    THEN recv_state([s EXCEPT !.chans[s.rx].recvd = 1], ch.val)
    ELSE IF ch.tx = "alive" THEN [s EXCEPT !.ret = "Pending"]
    ELSE [s EXCEPT !.ret = "ServiceStreamChannelClosed"]

RECURSIVE poll_ready(_, _)
poll_ready(s, r) ==
    IF s.ret # "loop" THEN s
    ELSE CASE s.state = "Disconnected" -> poll_ready(poll_disconnected(s), r)
           [] s.state = "Connecting" -> poll_ready(poll_connecting(s, r), r)
           [] s.state = "Connected" -> [s EXCEPT !.ret = "Ready"]
           [] s.state = "Sending" -> poll_ready(poll_sending(s), r)

(***************************************************************************)
(* Actions of the service and of its environment.                          *)
(***************************************************************************)
Svc == [state |-> state, stream |-> stream, rx |-> rx, fut |-> fut, chans |-> chans,
        nconn |-> nconn, live |-> live, cbs |-> cbs, ret |-> "loop", out |-> 0]

\* the results a connect attempt can have now: failures are capped by MaxFails
AttemptResults ==
    {x \in {connect(e, send_buffer_size) : e \in ConnectEnvs} :
        IsErr(x) => TotalFails < MaxFails}

\* one invocation of poll_ready by the caller
PollReady ==
    \E r \in {"pending"} \cup AttemptResults :
        LET s == poll_ready(Svc, r) IN
        /\ state' = s.state
        /\ stream' = s.stream
        /\ rx' = s.rx
        /\ fut' = s.fut
        /\ chans' = s.chans
        /\ nconn' = s.nconn
        /\ live' = s.live
        /\ cbs' = s.cbs
        /\ ret' = s.ret
        /\ UNCHANGED <<send_buffer_size, futs, wlog, callOut, panics>>

\* the network completes the connect attempt the pending future waits for
ConnectCompletes ==
    /\ state = "Connecting" /\ fut.pc = "connect" /\ fut.io = "pending"
    /\ \E r \in AttemptResults :
        /\ fut' = [fut EXCEPT !.io = r]
        /\ cbs' = [cbs EXCEPT ![Len(cbs)].fails = @ + (IF IsErr(r) THEN 1 ELSE 0)]
    /\ UNCHANGED <<send_buffer_size, state, stream, rx, chans, futs, nconn, live,
                   wlog, ret, callOut, panics>>

\* the sleep of the reconnect loop elapses
TimerFires ==
    /\ state = "Connecting" /\ fut.pc = "sleep" /\ fut.timer = "running"
    /\ fut' = [fut EXCEPT !.timer = "fired"]
    /\ UNCHANGED <<send_buffer_size, state, stream, rx, chans, futs, nconn, live,
                   wlog, cbs, ret, callOut, panics>>

(***************************************************************************)
(* TcpService::call (tcp.rs 217-244).                                      *)
(***************************************************************************)
\* what dropping the replaced state drops: the receiver of Sending, and with
\* it a stream that was sent and not received
drop_state_chans == 
    IF state = "Sending" THEN [chans EXCEPT ![rx].rxAlive = FALSE] ELSE chans

drop_state_live ==
    IF state = "Sending" /\ chans[rx].val > 0 /\ chans[rx].recvd = 0
    THEN live \ {chans[rx].val} ELSE live

\* mutant: call does not look at the state it replaces
call_unchecked == TRUE

\* match on the replaced state: Connected(stream) => stream, _ => panic!
call_connected == state = "Connected"

\* mutant: the state keeps the stream that the returned future writes to
call_replace_shared(id) == [state |-> state, stream |-> stream, rx |-> id]

\* mutant: the state is replaced only when it is Connected
call_replace_checked(id) ==
    IF state = "Connected" THEN [state |-> "Sending", stream |-> 0, rx |-> id]
    ELSE [state |-> state, stream |-> stream, rx |-> rx]

\* the state left behind by std::mem::replace(&mut self.state, Sending(rx)):
\* the stream is moved out of it
call_replace(id) == [state |-> "Sending", stream |-> 0, rx |-> id]

\* ret is the readiness the caller holds: a call uses it up
Call(len) ==
    /\ Len(chans) < MaxCalls
    /\ LET id == Len(chans) + 1
           st == call_replace(id) IN
       /\ state' = st.state
       /\ rx' = st.rx
       /\ stream' = st.stream
       /\ fut' = NoFut
       /\ live' = drop_state_live
       /\ ret' = "none"
       /\ IF call_connected
          THEN /\ chans' = Append(drop_state_chans, NewChan("alive"))
               /\ futs' = Append(futs, [tx |-> id, stream |-> stream, len |-> len,
                                        pc |-> "pending", res |-> "none", n |-> 0])
               /\ callOut' = "future"
               /\ panics' = panics
          ELSE \* panic!("poll_ready must be called first"): tx and buf are dropped
               /\ chans' = Append(drop_state_chans, NewChan("dropped"))
               /\ futs' = futs
               /\ callOut' = "panic"
               /\ panics' = panics + 1
    /\ UNCHANGED <<send_buffer_size, nconn, wlog, cbs>>

\* tx.send(v): the value reaches the channel unless the receiver is gone
send(ch, v) == IF ch.rxAlive THEN [ch EXCEPT !.tx = "sent", !.val = v]
               ELSE [ch EXCEPT !.tx = "sent"]

\* mutant: the response is not the length of the buffer
write_ok_zero(f) == [f EXCEPT !.pc = "done", !.res = "Ok", !.n = 0]

\* Ok(_) => { tx.send(Some(stream)); Ok(buf_len) }
write_ok(f) == [f EXCEPT !.pc = "done", !.res = "Ok", !.n = f.len]

\* mutant: the write error is swallowed
write_err_swallowed(f) == [f EXCEPT !.pc = "done", !.res = "Ok", !.n = f.len]

\* Err(e) => { tx.send(None); Err(e) }
write_err(f) == [f EXCEPT !.pc = "done", !.res = "FailedToSend"]

\* mutant: the stream is sent back also after a failed write
handoff_tainted(f, ok) == f.stream

\* what the future sends on the handoff: Some(stream), or None (0)
handoff(f, ok) == IF ok THEN f.stream ELSE 0

\* the future returned by call runs: stream.write_all(&buf) ends, well or not
Write(i, ok) ==
    /\ futs[i].pc = "pending"
    /\ LET f == futs[i] IN
       /\ wlog' = Append(wlog, [conn |-> f.stream, fut |-> i, ok |-> ok])
       /\ futs' = [futs EXCEPT ![i] = IF ok THEN write_ok(f) ELSE write_err(f)]
       /\ chans' = [chans EXCEPT ![f.tx] = send(@, handoff(f, ok))]
       /\ live' = IF handoff(f, ok) > 0 /\ chans[f.tx].rxAlive THEN live
                  ELSE live \ {f.stream}
    /\ UNCHANGED <<send_buffer_size, state, stream, rx, fut, nconn, cbs, ret,
                   callOut, panics>>

\* the future returned by call is dropped before it completed
DropFuture(i) ==
    /\ futs[i].pc = "pending"
    /\ futs' = [futs EXCEPT ![i].pc = "dropped"]
    /\ chans' = [chans EXCEPT ![futs[i].tx].tx = "dropped"]
    /\ live' = live \ {futs[i].stream}
    /\ UNCHANGED <<send_buffer_size, state, stream, rx, fut, nconn, wlog, cbs, ret,
                   callOut, panics>>

(***************************************************************************)
(* The stages of StatsdSink::run_inner (sink.rs 48-87) in front of the     *)
(* driver.  An event is its position in input.                             *)
(***************************************************************************)
\* longest input stream explored
MaxEvents == 3

\* byte sizes of the metrics explored
Sizes == {4, 6}

BatchMaxCount == 2

BatchMaxBytes == 10

\* the protocol's limit on the payload of one request
MaxRequestBytes == 8

\* timeout: the flush timer of the batcher elapses after this item
Events ==
    [kind : {"metric"}, size : Sizes, enc : BOOLEAN, timeout : {FALSE}]
      \cup [kind : {"log", "baseline"}, size : {4}, enc : {TRUE}, timeout : {FALSE}]

RECURSIVE SeqsUpTo(_, _)
SeqsUpTo(S, n) ==
    IF n = 0 THEN {<<>>}
    ELSE LET shorter == SeqsUpTo(S, n - 1) IN
         shorter \cup {Append(q, x) : q \in {y \in shorter : Len(y) = n - 1}, x \in S}

\* the input streams explored: the flush timer may elapse after a first metric
Inputs ==
    LET plain == SeqsUpTo(Events, MaxEvents) IN
    plain \cup {[in EXCEPT ![1].timeout = TRUE] :
                   in \in {x \in plain : x # <<>> /\ x[1].kind = "metric"}}

\* mutant: events that are not metrics pass the first stage
try_into_metric_all(in, e) == TRUE

\* .filter_map(|event| ready(event.try_into_metric())): only metrics pass
try_into_metric(in, e) == in[e].kind # "log"

\* .normalized_with_default::<StatsdNormalizer>(): an absolute counter with
\* no baseline is kept as the baseline and suppressed
normalize(in, e) == in[e].kind # "baseline"

RECURSIVE Bytes(_, _)
Bytes(in, es) == IF es = <<>> THEN 0 ELSE in[Head(es)].size + Bytes(in, Tail(es))

\* mutant: the byte limit is looked at only after the item has been added
RECURSIVE batched_late(_, _, _)
batched_late(in, es, cur) ==
    IF es = <<>> THEN (IF cur = <<>> THEN <<>> ELSE <<cur>>)
    ELSE LET b == Append(cur, Head(es)) IN
         IF Len(b) > BatchMaxCount \/ Bytes(in, b) >= BatchMaxBytes \/ in[Head(es)].timeout
         THEN <<b>> \o batched_late(in, Tail(es), <<>>)
         ELSE batched_late(in, Tail(es), b)

\* .batched(...): the batch closes when the next item would exceed the byte
\* limit, when the count limit is reached, when its timer elapses, and at the
\* end of the stream
RECURSIVE batched(_, _, _)
batched(in, es, cur) ==
    IF es = <<>> THEN (IF cur = <<>> THEN <<>> ELSE <<cur>>)
    ELSE LET e == Head(es) IN
         IF cur # <<>> /\ Bytes(in, cur) + in[e].size > BatchMaxBytes
         THEN <<cur>> \o batched(in, es, <<>>)
         ELSE LET b == Append(cur, e) IN
              IF Len(b) >= BatchMaxCount \/ in[e].timeout
              THEN <<b>> \o batched(in, Tail(es), <<>>)
              ELSE batched(in, Tail(es), b)

OkRequest(in, es) == [ok |-> TRUE, events |-> es, len |-> Bytes(in, es), dropped |-> 0]

\* mutant: the build error does not count the events it drops
BuildError_uncounted(es) == [ok |-> FALSE, events |-> es, len |-> 0, dropped |-> 0]

BuildError(es) == [ok |-> FALSE, events |-> es, len |-> 0, dropped |-> Len(es)]

Closed(in, cur) == IF cur = <<>> THEN <<>> ELSE <<OkRequest(in, cur)>>

\* .incremental_request_builder(...): one batch gives requests in item order;
\* an item that fails to encode gives a BuildError of its own, and a request
\* is closed when the next item would exceed the payload limit
RECURSIVE incremental_request_builder(_, _, _)
incremental_request_builder(in, batch, cur) ==
    IF batch = <<>> THEN Closed(in, cur)
    ELSE LET e == Head(batch) IN
         IF ~in[e].enc
         THEN Closed(in, cur) \o <<BuildError(<<e>>)>>
                \o incremental_request_builder(in, Tail(batch), <<>>)
         ELSE IF cur # <<>> /\ Bytes(in, cur) + in[e].size > MaxRequestBytes
         THEN Closed(in, cur) \o incremental_request_builder(in, batch, <<>>)
         ELSE incremental_request_builder(in, Tail(batch), Append(cur, e))

\* .flat_map(stream::iter)
RECURSIVE flat_map(_, _)
flat_map(in, batches) ==
    IF batches = <<>> THEN <<>>
    ELSE incremental_request_builder(in, Head(batches), <<>>) \o flat_map(in, Tail(batches))

Positions(in) == [i \in 1..Len(in) |-> i]

\* the stream of request results run_inner hands to its error filter
request_stream(in) ==
    LET metrics == SelectSeq(Positions(in), LAMBDA e : try_into_metric(in, e))
        normalized == SelectSeq(metrics, LAMBDA e : normalize(in, e))
    IN  flat_map(in, batched(in, normalized, <<>>))

(***************************************************************************)
(* The error filter (sink.rs 67-80) and the driver (sink.rs 83-86).        *)
(***************************************************************************)
Finalize(es, status) == [k \in 1..Len(es) |-> [ev |-> es[k], status |-> status]]

\* mutant: the build error is filtered out without an event
emit_encoding_error_none(errs, r) == errs

\* emit!(StatsdEncodingError { error, dropped_events }) (sink.rs 70-77)
emit_encoding_error(errs, r) == Append(errs, r.dropped)

\* Err(e) => { emit!(StatsdEncodingError { dropped_events }); None }
FilterError ==
    /\ dpc = "pull" /\ dnext <= Len(reqs) /\ ~reqs[dnext].ok
    /\ encErrs' = emit_encoding_error(encErrs, reqs[dnext])
    /\ flog' = flog \o Finalize(reqs[dnext].events, "dropped")
    /\ dnext' = dnext + 1
    /\ UNCHANGED <<input, reqs, dpc, inflight, submitted, completed>>
    /\ UNCHANGED svcVars

\* Ok(req) => Some(req): the driver has a request to submit
DriverNext ==
    /\ dpc = "pull" /\ dnext <= Len(reqs) /\ reqs[dnext].ok
    /\ dpc' = "poll"
    /\ UNCHANGED <<input, reqs, dnext, inflight, submitted, completed, flog, encErrs>>
    /\ UNCHANGED svcVars

\* what the driver does with the answer of poll_ready
after_poll(r) == CASE r = "Ready" -> "call" [] r = "Pending" -> "poll" [] OTHER -> "failed"

\* 1. poll the service for readiness
DriverPoll ==
    /\ dpc = "poll"
    /\ PollReady
    /\ dpc' = after_poll(ret')
    /\ UNCHANGED <<input, reqs, dnext, inflight, submitted, completed, flog, encErrs>>

\* 2. invoke the service with the request's bytes
DriverCall ==
    /\ dpc = "call"
    /\ Call(reqs[dnext].len)
    /\ inflight' = inflight \cup {<<Len(futs) + 1, dnext>>}
    /\ submitted' = Append(submitted, dnext)
    /\ dnext' = dnext + 1
    /\ dpc' = "pull"
    /\ UNCHANGED <<input, reqs, completed, flog, encErrs>>

\* the status the driver gives the events of a request whose call resolved
response_status(res) == IF res = "Ok" THEN "delivered" ELSE "failed"

\* 3./4. the call resolves: finalize the request's events
DriverResponse(c, ok) ==
    /\ c \in inflight
    /\ Write(c[1], ok)
    /\ flog' = flog \o Finalize(reqs[c[2]].events, response_status(futs'[c[1]].res))
    /\ completed' = Append(completed, c[2])
    /\ inflight' = inflight \ {c}
    /\ UNCHANGED <<input, reqs, dpc, dnext, submitted, encErrs>>

\* the request stream has ended and every submitted request is drained
DriverDone ==
    /\ dpc = "pull" /\ dnext > Len(reqs) /\ inflight = {}
    /\ dpc' = "done"
    /\ UNCHANGED <<input, reqs, dnext, inflight, submitted, completed, flog, encErrs>>
    /\ UNCHANGED svcVars

InitService ==
    /\ send_buffer_size \in {"None", "Some"}
    /\ state = "Disconnected"
    /\ stream = 0
    /\ rx = 0
    /\ fut = NoFut
    /\ chans = <<>>
    /\ futs = <<>>
    /\ nconn = 0
    /\ live = {}
    /\ wlog = <<>>
    /\ cbs = <<>>
    /\ ret = "none"
    /\ callOut = "none"
    /\ panics = 0

InitDriver(in) ==
    /\ input = in
    /\ reqs = request_stream(in)
    /\ dnext = 1
    /\ inflight = {}
    /\ submitted = <<>>
    /\ completed = <<>>
    /\ flog = <<>>
    /\ encErrs = <<>>

\* hc: the healthchecks run, and of the last one the environment it met, its
\* connect attempts, its sleeps, its answer and the streams it still holds
NoHealthcheck ==
    [runs |-> 0, attempts |-> 0, sleeps |-> 0, res |-> "none", open |-> 0,
     env |-> [dns |-> "none", socket |-> "none", sndbuf |-> "none", tcp |-> "none"]]

InitAux ==
    /\ hc = NoHealthcheck
    /\ fname = "none"
    /\ fpc = "off"
    /\ arg = <<>>
    /\ fout = <<>>

vars == <<svcVars, pipeVars, auxVars>>

(***************************************************************************)
(* Spec: a TcpService under an arbitrary caller.                           *)
(***************************************************************************)
Init == InitService /\ InitDriver(<<>>) /\ dpc = "off" /\ InitAux

Next ==
    \/ PollReady /\ UNCHANGED <<pipeVars, auxVars>>
    \/ ConnectCompletes /\ UNCHANGED <<pipeVars, auxVars>>
    \/ TimerFires /\ UNCHANGED <<pipeVars, auxVars>>
    \/ \E len \in 0..MaxLen : Call(len) /\ UNCHANGED <<pipeVars, auxVars>>
    \/ \E i \in DOMAIN futs, ok \in BOOLEAN : Write(i, ok) /\ UNCHANGED <<pipeVars, auxVars>>
    \/ \E i \in DOMAIN futs : DropFuture(i) /\ UNCHANGED <<pipeVars, auxVars>>

Spec == Init /\ [][Next]_vars

(***************************************************************************)
(* SpecPipeline: the service driven by run_inner.                          *)
(***************************************************************************)
InitPipeline ==
    /\ InitService
    /\ \E in \in Inputs : InitDriver(in)
    /\ dpc = "pull"
    /\ InitAux

NextPipeline ==
    \/ FilterError /\ UNCHANGED auxVars
    \/ DriverNext /\ UNCHANGED auxVars
    \/ DriverPoll /\ UNCHANGED auxVars
    \/ DriverCall /\ UNCHANGED auxVars
    \/ \E c \in inflight, ok \in BOOLEAN : DriverResponse(c, ok) /\ UNCHANGED auxVars
    \/ DriverDone /\ UNCHANGED auxVars
    \/ ConnectCompletes /\ UNCHANGED <<pipeVars, auxVars>>
    \/ TimerFires /\ UNCHANGED <<pipeVars, auxVars>>

SpecPipeline == InitPipeline /\ [][NextPipeline]_vars

(***************************************************************************)
(* TcpConnector::healthcheck (tcp.rs 138-142), run beside a service built  *)
(* from the same connector.                                                *)
(***************************************************************************)
MaxHealthchecks == 2

\* mutant: the healthcheck leaves its connection to the service
healthcheck_shared(s, sbs, h, env) ==
    LET r == connect(env, sbs) IN
    [svc |-> IF r = "Ok"
             THEN [s EXCEPT !.state = "Connected", !.stream = s.nconn + 1,
                            !.nconn = @ + 1, !.live = @ \cup {s.nconn + 1}]
             ELSE s,
     sbs |-> sbs,
     hc |-> [runs |-> h.runs + 1, attempts |-> 1, sleeps |-> 0, res |-> r,
             open |-> 0, env |-> env]]

\* connector.connect().await.map(|_| ()).map_err(Into::into) on a clone of the
\* connector: one attempt, the stream dropped, the error handed on
healthcheck(s, sbs, h, env) ==
    [svc |-> s,
     sbs |-> sbs,
     hc |-> [runs |-> h.runs + 1, attempts |-> 1, sleeps |-> 0,
             res |-> connect(env, sbs), open |-> 0, env |-> env]]

Healthcheck ==
    /\ hc.runs < MaxHealthchecks
    /\ \E env \in ConnectEnvs :
          LET h == healthcheck(Svc, send_buffer_size, hc, env) IN
          /\ hc' = h.hc
          /\ send_buffer_size' = h.sbs
          /\ state' = h.svc.state
          /\ stream' = h.svc.stream
          /\ rx' = h.svc.rx
          /\ fut' = h.svc.fut
          /\ chans' = h.svc.chans
          /\ nconn' = h.svc.nconn
          /\ live' = h.svc.live
          /\ cbs' = h.svc.cbs
    /\ UNCHANGED <<futs, wlog, ret, callOut, panics>>
    /\ UNCHANGED <<pipeVars, fname, fpc, arg, fout>>

NextHealth ==
    \/ Healthcheck
    \/ PollReady /\ UNCHANGED <<pipeVars, auxVars>>
    \/ ConnectCompletes /\ UNCHANGED <<pipeVars, auxVars>>
    \/ TimerFires /\ UNCHANGED <<pipeVars, auxVars>>

SpecHealth == Init /\ [][NextHealth]_vars

\* the input streams of the runs checked for termination: metrics only
DrainInputs ==
    SeqsUpTo([kind : {"metric"}, size : Sizes, enc : BOOLEAN, timeout : {FALSE}],
             MaxEvents - 1)

InitDrain ==
    /\ InitService
    /\ \E in \in DrainInputs : InitDriver(in)
    /\ dpc = "pull"
    /\ InitAux

\* run is a task the runtime keeps polling, a connect attempt and a write
\* end, and a sleep elapses: a step is taken as long as one can be
SpecDrain == InitDrain /\ [][NextPipeline]_vars /\ WF_vars(NextPipeline)

(***************************************************************************)
(* Properties.                                                             *)
(***************************************************************************)
PendingFuts == {i \in DOMAIN futs : futs[i].pc = "pending"}

\* the holders of stream c: the Connected state, the write futures that have
\* not finished, the handoff channels that carry it to a live receiver
OwnerCount(c) ==
    (IF state = "Connected" /\ stream = c THEN 1 ELSE 0)
    + Cardinality({i \in PendingFuts : futs[i].stream = c})
    + Cardinality({k \in DOMAIN chans :
                     chans[k].val = c /\ chans[k].recvd = 0 /\ chans[k].rxAlive})

\* C1: every stream has at most one holder (the Connected state, one write
\* future in flight, or the handoff in transit), a stream is live exactly
\* while it has one, and a state other than Connected holds no stream.
C1_SingleOwner ==
    /\ \A c \in 1..nconn : OwnerCount(c) <= 1 /\ (c \in live <=> OwnerCount(c) = 1)
    /\ state # "Connected" => stream = 0
    /\ state = "Connected" => stream \in live
    /\ \A i \in PendingFuts : futs[i].stream \in live

C1_Witness ==
    /\ state = "Sending"
    /\ \E i \in PendingFuts : futs[i].stream \in live
    /\ \E j \in DOMAIN futs : futs[j].res = "Ok"

\* the connect_backoff invocation that established stream c
CbOf(c) == CHOOSE k \in DOMAIN cbs : cbs[k].conn = c

C3_Inv ==
    /\ \A i \in DOMAIN futs : futs[i].res = "FailedToSend" =>
          /\ chans[futs[i].tx].val <= 0
          /\ futs[i].stream \notin live
          /\ ~(state = "Connected" /\ stream = futs[i].stream)
    /\ \A j, k \in DOMAIN wlog : j < k /\ ~wlog[j].ok => wlog[k].conn # wlog[j].conn
    /\ \A i \in DOMAIN futs : i > 1 /\ futs[i - 1].res = "FailedToSend" =>
          /\ futs[i].stream > futs[i - 1].stream
          /\ CbOf(futs[i].stream) > CbOf(futs[i - 1].stream)

C3_Step ==
    (state = "Sending" /\ chans[rx].val = 0 /\ chans[rx].recvd = 0 /\ chans'[rx].recvd = 1)
      => /\ state' \in {"Connecting", "Connected"}
         /\ Len(cbs') = Len(cbs) + 1
         /\ ret' \in {"Pending", "Ready"}
         /\ state' = "Connected" => stream' = nconn + 1 /\ ret' = "Ready"

\* C3: a failed write sends no stream on the handoff; the poll_ready that
\* receives it leaves Sending through Disconnected into a new connect_backoff
\* (Connecting, or Connected with a new stream); the stream of the failed
\* write is not written to again and later calls use a later connect_backoff.
C3_ReconnectAfterFailedSend == [](C3_Inv) /\ [][C3_Step]_vars

C3_Witness ==
    \E i \in DOMAIN futs :
        /\ futs[i].res = "FailedToSend"
        /\ i + 1 \in DOMAIN futs /\ futs[i + 1].res = "Ok"
        /\ state = "Connected" /\ stream > futs[i].stream

C4_Step ==
    (Len(chans') = Len(chans) + 1 /\ state # "Connected")
      => /\ callOut' = "panic"
         /\ panics' = panics + 1
         /\ futs' = futs
         /\ wlog' = wlog
         /\ chans'[Len(chans')].tx = "dropped"

C4_Inv ==
    /\ Len(futs) + panics = Len(chans)
    /\ \A k \in DOMAIN wlog : futs[wlog[k].fut].stream > 0 /\ wlog[k].conn = futs[wlog[k].fut].stream
    /\ \A k \in DOMAIN chans :
          (\A i \in DOMAIN futs : futs[i].tx # k) => chans[k].tx = "dropped" /\ chans[k].val = -1

\* C4: a call in a state other than Connected panics: it returns no future,
\* writes nothing, and its handoff never carries anything (nothing is queued
\* or retried); every write belongs to a call made in Connected.
C4_CallNotConnectedPanics == [](C4_Inv) /\ [][C4_Step]_vars

C4_Witness == panics > 0 /\ callOut = "panic" /\ Len(futs) > 0

\* C5: at most one write future is in flight, poll_ready has not returned
\* ready while one is, and the writes happen in the order of the calls.
C5_OneOutstanding ==
    /\ Cardinality(PendingFuts) <= 1
    /\ ret = "Ready" => PendingFuts = {} /\ state = "Connected"
    /\ \A j, k \in DOMAIN wlog : j < k => wlog[j].fut < wlog[k].fut

C5_Witness ==
    /\ Len(futs) >= 2 /\ futs[1].pc = "done" /\ futs[2].pc = "pending"
    /\ ret = "Pending"

ClosedHandoff == state = "Sending" /\ chans[rx].tx = "dropped" /\ chans[rx].val < 0

C6_Step ==
    ClosedHandoff
      => /\ state' = "Sending" /\ chans'[rx'].tx = "dropped" /\ chans'[rx'].val < 0
         /\ cbs' = cbs /\ nconn' = nconn
         /\ ret' # "Ready"
         /\ ret' # ret => ret' \in {"ServiceStreamChannelClosed", "none"}

\* C6: once the sender of the handoff is gone without a message, poll_ready
\* answers ServiceStreamChannelClosed only in that situation, the state stays
\* Sending, no connect_backoff is started and poll_ready never returns ready.
C6_ChannelClosedIsFatal ==
    [](ret = "ServiceStreamChannelClosed" => ClosedHandoff) /\ [][C6_Step]_vars

C6_Witness ==
    /\ ret = "ServiceStreamChannelClosed"
    /\ \E i \in DOMAIN futs : futs[i].pc = "dropped" /\ futs[i].tx = rx

\* C7: a connect_backoff that returned a stream made one successful attempt,
\* the last one, after n failures, emitted n connection errors and one
\* connection-established event and slept n times, the k-th time for the k-th
\* backoff delay; one that has not returned emitted no established event and
\* slept once per error emitted.
C7_ConnectBackoffExitsOnSuccess ==
    \A k \in DOMAIN cbs :
        LET c == cbs[k] IN
        /\ \A j \in DOMAIN c.sleeps : c.sleeps[j] = backoff_next(j - 1)
        /\ Len(c.sleeps) = c.errs
        /\ c.conn > 0 => /\ c.errs = c.fails
                         /\ c.est = 1
                         /\ c.attempts = c.fails + 1
        /\ c.conn = 0 => /\ c.est = 0
                         /\ c.errs <= c.fails /\ c.fails <= c.errs + 1
                         /\ c.attempts <= c.fails + 1
        /\ (state = "Connecting" /\ k = Len(cbs)) => c.conn = 0

C7_Witness ==
    \E k \in DOMAIN cbs : cbs[k].conn > 0 /\ cbs[k].fails >= 2 /\ cbs[k].est = 1

C8_Inv ==
    /\ ret \in {"none", "Pending", "Ready", "ServiceStreamChannelClosed"}
    /\ state = "Connecting" => ret = "Pending"
    /\ state = "Disconnected" => ret = "none"

C8_Step ==
    (state = "Connecting" /\ IsErr(fut.io) /\ Len(chans') = Len(chans) /\ fut' # fut)
      => state' = "Connecting" /\ ret' = "Pending" /\ fut'.pc = "sleep"

\* C8: poll_ready returns pending, ready or ServiceStreamChannelClosed and
\* nothing else; a failed connect attempt leaves the state Connecting, with
\* poll_ready pending and the reconnect loop asleep.
C8_ConnectErrorsStayInside == [](C8_Inv) /\ [][C8_Step]_vars

C8_Witness ==
    /\ state = "Connecting" /\ fut.pc = "sleep" /\ ret = "Pending"
    /\ cbs[Len(cbs)].errs >= 2

WritesOf(i) == {k \in DOMAIN wlog : wlog[k].fut = i}

\* C9: a finished write future wrote once and sent once on its handoff: Ok(n)
\* with n the buffer length and the stream on the handoff exactly when the
\* write succeeded, FailedToSend and None on the handoff exactly when it
\* failed; an unfinished one has sent nothing.
C9_CallResult ==
    \A i \in DOMAIN futs :
        LET f == futs[i]
            ch == chans[f.tx]
            w == wlog[CHOOSE k \in WritesOf(i) : TRUE]
        IN
        /\ f.pc = "pending" => f.res = "none" /\ ch.tx = "alive" /\ ch.val = -1 /\ WritesOf(i) = {}
        /\ f.pc = "dropped" => f.res = "none" /\ ch.tx = "dropped" /\ ch.val = -1 /\ WritesOf(i) = {}
        /\ f.pc = "done" =>
              /\ Cardinality(WritesOf(i)) = 1
              /\ ch.tx = "sent"
              /\ f.res \in {"Ok", "FailedToSend"}
              /\ f.res = "Ok" <=> w.ok
              /\ f.res = "Ok" => f.n = f.len /\ (ch.rxAlive => ch.val = f.stream)
              /\ f.res = "FailedToSend" => (ch.rxAlive => ch.val = 0)

C9_Witness ==
    \E i, j \in DOMAIN futs :
        /\ futs[i].res = "Ok" /\ futs[i].n = MaxLen /\ chans[futs[i].tx].recvd = 1
        /\ futs[j].res = "FailedToSend" /\ chans[futs[j].tx].val = 0

Range(q) == {q[k] : k \in DOMAIN q}

FinalsOf(e) == {k \in DOMAIN flog : flog[k].ev = e}

\* the call (and write future) that carried request idx
CallOf(idx) == CHOOSE k \in DOMAIN submitted : submitted[k] = idx

StatusOf(e) == flog[CHOOSE k \in FinalsOf(e) : TRUE].status

NoRepeat(q) == \A j, k \in DOMAIN q : j # k => q[j] # q[k]

\* C2: no event is finalized twice; the events of a request are finalized
\* exactly when its call has resolved, as delivered if the call returned Ok (the
\* write succeeded) and as failed if it returned an error (the write failed);
\* when run ends every request has been called once and has resolved.
C2_FinalizedExactlyOnce ==
    /\ \A e \in DOMAIN input : Cardinality(FinalsOf(e)) <= 1
    /\ NoRepeat(submitted) /\ NoRepeat(completed)
    /\ Len(futs) = Len(submitted) /\ panics = 0
    /\ \A idx \in DOMAIN reqs : reqs[idx].ok =>
          \A j \in DOMAIN reqs[idx].events :
              LET e == reqs[idx].events[j] IN
              IF idx \in Range(completed)
              THEN /\ Cardinality(FinalsOf(e)) = 1
                   /\ StatusOf(e) \in {"delivered", "failed"}
                   /\ StatusOf(e) = "delivered" <=> futs[CallOf(idx)].res = "Ok"
                   /\ StatusOf(e) = "delivered" <=>
                         \E k \in WritesOf(CallOf(idx)) : wlog[k].ok
                   /\ StatusOf(e) = "failed" <=> futs[CallOf(idx)].res = "FailedToSend"
              ELSE FinalsOf(e) = {}
    /\ dpc = "done" =>
          \A idx \in DOMAIN reqs : reqs[idx].ok => idx \in Range(completed)

C2_Witness ==
    /\ dpc = "done"
    /\ nconn >= 2
    /\ \E j, k \in DOMAIN flog :
          j < k /\ flog[j].status = "failed" /\ flog[k].status = "delivered"
    /\ \E idx \in Range(completed) : Len(reqs[idx].events) = 2

RECURSIVE EventsOf(_)
EventsOf(idxs) ==
    IF idxs = <<>> THEN <<>> ELSE reqs[Head(idxs)].events \o EventsOf(Tail(idxs))

OkIdx == SelectSeq(Positions(reqs), LAMBDA i : reqs[i].ok)

Increasing(q) == \A j, k \in DOMAIN q : j < k => q[j] < q[k]

DriverFinals == SelectSeq(flog, LAMBDA x : x.status # "dropped")

\* C10: the requests are built in event arrival order, they are passed to call
\* in the order built, at most one call is unresolved, the calls resolve in the
\* order made, and the events are finalized in that order.
C10_OrderPreserved ==
    /\ Increasing(EventsOf(Positions(reqs)))
    /\ Len(submitted) <= Len(OkIdx)
    /\ submitted = SubSeq(OkIdx, 1, Len(submitted))
    /\ Len(completed) <= Len(submitted)
    /\ completed = SubSeq(submitted, 1, Len(completed))
    /\ Len(submitted) - Len(completed) <= 1
    /\ Cardinality(inflight) = Len(submitted) - Len(completed)
    /\ [k \in DOMAIN DriverFinals |-> DriverFinals[k].ev] = EventsOf(completed)

C10_Witness ==
    /\ dpc = "done"
    /\ Len(completed) >= 2
    /\ Len(completed) < Len(reqs)
    /\ \E k \in DOMAIN flog : flog[k].status = "failed"
    /\ \E k \in DOMAIN flog : flog[k].status = "delivered"

(***************************************************************************)
(* C11: one event, two refused connection attempts, then a connection.     *)
(***************************************************************************)
\* one event that reaches the service as one request; the first
\* connect_backoff failed twice and then connected; no write failed
C11_Scenario ==
    /\ Len(input) = 1
    /\ Len(reqs) = 1 /\ reqs[1].ok
    /\ cbs # <<>>
    /\ cbs[1].fails = 2
    /\ cbs[1].conn > 0
    /\ \A k \in DOMAIN wlog : wlog[k].ok

\* C11: with a connector whose first two attempts fail and whose third
\* succeeds, the single event is finalized at most once, only as delivered and
\* only after two connection-error events (and one connection-established
\* event) were emitted, and it has been finalized when run ends.
C11_DeliveredAfterTwoErrors ==
    C11_Scenario =>
        /\ Cardinality(FinalsOf(1)) <= 1
        /\ Len(flog) <= 1
        /\ FinalsOf(1) # {} =>
              /\ StatusOf(1) = "delivered"
              /\ cbs[1].errs >= 2
              /\ cbs[1].attempts = 3
              /\ cbs[1].est = 1
              /\ Len(cbs) = 1
        /\ dpc = "done" => Cardinality(FinalsOf(1)) = 1

C11_Witness ==
    /\ C11_Scenario
    /\ dpc = "done"
    /\ flog = <<[ev |-> 1, status |-> "delivered"]>>
    /\ cbs[1].errs = 2

(***************************************************************************)
(* C12: a request whose send failed is not sent again.                     *)
(***************************************************************************)
\* the events of the request that call k carried are each finalized once,
\* with the given status
FinalizedAs(k, status) ==
    \A j \in DOMAIN reqs[submitted[k]].events :
        LET e == reqs[submitted[k]].events[j] IN
        /\ Cardinality(FinalsOf(e)) = 1
        /\ StatusOf(e) = status

\* C12: every request is passed to call at most once and every call makes at
\* most one write attempt; the events of a request whose write failed are
\* finalized as failed; the request after it is still called with its own
\* bytes, on a connection established after the failure, while the request
\* after a successful one is written to the same connection.
C12_NoResend ==
    /\ NoRepeat(submitted)
    /\ Len(futs) = Len(submitted)
    /\ \A k \in DOMAIN futs :
          /\ Cardinality(WritesOf(k)) <= 1
          /\ futs[k].len = reqs[submitted[k]].len
          /\ futs[k].res = "FailedToSend" => FinalizedAs(k, "failed")
          /\ k + 1 \in DOMAIN futs =>
                /\ futs[k].res = "FailedToSend" =>
                      /\ futs[k + 1].stream > futs[k].stream
                      /\ cbs[CbOf(futs[k + 1].stream)].attempts >= 1
                /\ futs[k].res = "Ok" => futs[k + 1].stream = futs[k].stream
    /\ dpc = "done" => submitted = OkIdx

C12_Witness ==
    /\ dpc = "done"
    /\ \E k \in DOMAIN futs :
          /\ k + 1 \in DOMAIN futs
          /\ futs[k].res = "FailedToSend"
          /\ futs[k + 1].res = "Ok"
          /\ Cardinality(WritesOf(k)) = 1
          /\ wlog[CHOOSE w \in WritesOf(k + 1) : TRUE].conn = futs[k].stream + 1

(***************************************************************************)
(* C13: build errors are filtered out before the driver.                   *)
(***************************************************************************)
\* the build errors the filter has seen so far, in order
ErrIdxSeen == SelectSeq(Positions(reqs), LAMBDA i : ~reqs[i].ok /\ i < dnext)

MaxItems == 3

\* item sizes below, at and above the batcher's byte limit
BatcherSizes == {4, 6, 12}

MaxNexts == 4

MaxDefs == 2

MaxAttrs == 2

(***************************************************************************)
(* SchemaQueryBuilder (schema.rs 80-174).  A schema definition is a        *)
(* boolean schema or an object schema; meta tells whether its extensions   *)
(* hold no "_metadata", a "_metadata" that is a JSON object (attrs: its    *)
(* keys and values) or one that is any other JSON value.                   *)
(***************************************************************************)
JsonItems == {[str |-> TRUE, s |-> "a"], [str |-> TRUE, s |-> "b"], [str |-> FALSE, s |-> ""]}

Json(t, b, s, items) == [t |-> t, b |-> b, s |-> s, items |-> items]

\* the values an attribute has in the schemas explored
JsonValues ==
    {Json("bool", TRUE, "", <<>>), Json("bool", FALSE, "", <<>>),
     Json("string", FALSE, "a", <<>>), Json("string", FALSE, "b", <<>>),
     Json("number", FALSE, "", <<>>)}
    \cup {Json("array", FALSE, "", q) :
             q \in {<<>>, <<[str |-> TRUE, s |-> "b"]>>,
                    <<[str |-> FALSE, s |-> ""], [str |-> TRUE, s |-> "a"]>>,
                    <<[str |-> TRUE, s |-> "a"], [str |-> TRUE, s |-> "b"]>>}}

NoAttrs == [x \in {} |-> Json("number", FALSE, "", <<>>)]

Schemas ==
    {[bool |-> TRUE, meta |-> "none", attrs |-> NoAttrs]}
    \cup {[bool |-> FALSE, meta |-> m, attrs |-> NoAttrs] : m \in {"none", "other", "object"}}
    \cup {[bool |-> FALSE, meta |-> "object", attrs |-> [x \in {"k"} |-> v]] : v \in JsonValues}

\* CustomAttribute::Flag(key), CustomAttribute::KeyValue { key, value }
CustomAttributes ==
    [kind : {"Flag"}, key : {"k", "other"}, value : {""}]
    \cup [kind : {"KeyValue"}, key : {"k"}, value : {"a", "b"}]

QueryInputs ==
    [definitions : SeqsUpTo(Schemas, MaxDefs), attributes : SeqsUpTo(CustomAttributes, MaxAttrs)]

\* the match on self_attribute (schema.rs 130-158)
attr_matched(schema_attributes, a) ==
    IF a.key \notin DOMAIN schema_attributes THEN FALSE
    ELSE LET value == schema_attributes[a.key] IN
         IF a.kind = "Flag" THEN value.t = "bool" /\ value.b
         ELSE CASE value.t = "string" -> value.s = a.value
                [] value.t = "array" ->
                      \E i \in DOMAIN value.items :
                          value.items[i].str /\ value.items[i].s = a.value
                [] OTHER -> FALSE

\* mutant: one matching constraint is enough
schema_selected_any(sd, attributes) ==
    /\ ~sd.bool
    /\ ~(attributes # <<>> /\ sd.meta = "none")
    /\ sd.meta = "object" =>
          \/ attributes = <<>>
          \/ \E i \in DOMAIN attributes : attr_matched(sd.attrs, attributes[i])

\* the body of the loop over the definitions (schema.rs 115-167): whether
\* the definition is pushed to matches
schema_selected(sd, attributes) ==
    /\ ~sd.bool
    /\ ~(attributes # <<>> /\ sd.meta = "none")
    /\ sd.meta = "object" =>
          \A i \in DOMAIN attributes : attr_matched(sd.attrs, attributes[i])

\* SchemaQueryBuilder::run: the positions of the matches, in definition order
run(definitions, attributes) ==
    SelectSeq(Positions(definitions), LAMBDA i : schema_selected(definitions[i], attributes))

BatcherInputs ==
    SeqsUpTo([kind : {"metric"}, size : BatcherSizes, enc : {TRUE}, timeout : BOOLEAN],
             MaxItems)

BuilderInputs ==
    SeqsUpTo([kind : {"metric"}, size : Sizes, enc : BOOLEAN, timeout : {FALSE}],
             MaxItems)

\* mutant: of several matches the first is returned
run_single_first(definitions, attributes) ==
    LET matches == run(definitions, attributes) IN
    IF Len(matches) = 0 THEN [ok |-> FALSE, schema |-> 0, err |-> "NoMatches", len |-> 0]
    ELSE [ok |-> TRUE, schema |-> matches[1], err |-> "none", len |-> 0]

\* SchemaQueryBuilder::run_single (schema.rs 182-189); len is the field of
\* MultipleMatches
run_single(definitions, attributes) ==
    LET matches == run(definitions, attributes) IN
    CASE Len(matches) = 0 ->
            [ok |-> FALSE, schema |-> 0, err |-> "NoMatches", len |-> 0]
      [] Len(matches) = 1 ->
            [ok |-> TRUE, schema |-> matches[1], err |-> "none", len |-> 0]
      [] OTHER ->
            [ok |-> FALSE, schema |-> 0, err |-> "MultipleMatches", len |-> Len(matches)]

(***************************************************************************)
(* push (push.rs 5-9) on VRL values: a scalar of some kind, or an array.   *)
(***************************************************************************)
Scalar(t, s) == [t |-> t, s |-> s, items |-> <<>>]

Array(items) == [t |-> "array", s |-> "", items |-> items]

\* the scalars of the tests of push.rs 112-140
Scalars ==
    {Scalar("integer", "11"), Scalar("boolean", "false"), Scalar("float", "42.5"),
     Scalar("bytes", "foo")}

PushInputs ==
    [list : {Array(q) : q \in SeqsUpTo(Scalars, MaxItems)}
               \cup Scalars \cup {Scalar("null", "")},
     item : Scalars \cup {Array(<<>>), Array(<<Scalar("bytes", "foo")>>)}]

\* list.try_array(): the elements of an array, an error for any other value
try_array(v) ==
    IF v.t = "array" THEN [ok |-> TRUE, vec |-> v.items]
    ELSE [ok |-> FALSE, vec |-> <<>>]

\* mutant: an item the list already holds is not added again
push_unique(list, item) ==
    LET r == try_array(list) IN
    IF ~r.ok THEN [ok |-> FALSE, value |-> Scalar("null", "")]
    ELSE IF \E k \in DOMAIN r.vec : r.vec[k] = item
    THEN [ok |-> TRUE, value |-> Array(r.vec)]
    ELSE [ok |-> TRUE, value |-> Array(Append(r.vec, item))]

\* let mut list = list.try_array()?; list.push(item); Ok(list.into())
push(list, item) ==
    LET r == try_array(list) IN
    IF ~r.ok THEN [ok |-> FALSE, value |-> Scalar("null", "")]
    ELSE [ok |-> TRUE, value |-> Array(Append(r.vec, item))]

(***************************************************************************)
(* QueryableSchema for SchemaObject: get_attributes, get_attribute and     *)
(* has_flag_attribute (schema.rs 329-377).  A result of get_attributes is  *)
(* None, One(attr), Many(attrs), or a panic.                               *)
(***************************************************************************)
flag(key) == [kind |-> "Flag", key |-> key, value |-> ""]

kv(key, value) == [kind |-> "KeyValue", key |-> key, value |-> value]

OneOrMany(tag, attrs) == [tag |-> tag, attrs |-> attrs]

AttributeInputs == [schema : {sd \in Schemas : ~sd.bool}, key : {"k", "other"}]

get_attributes(sd, key) ==
    IF sd.meta = "none" THEN OneOrMany("None", <<>>)
    ELSE IF sd.meta # "object" THEN OneOrMany("panic", <<>>)
    ELSE IF key \notin DOMAIN sd.attrs THEN OneOrMany("None", <<>>)
    ELSE LET attribute == sd.attrs[key] IN
         CASE attribute.t = "bool" ->
                 IF attribute.b THEN OneOrMany("One", <<flag(key)>>)
                 ELSE OneOrMany("panic", <<>>)
           [] attribute.t = "string" -> OneOrMany("One", <<kv(key, attribute.s)>>)
           [] attribute.t = "array" ->
                 IF \E i \in DOMAIN attribute.items : ~attribute.items[i].str
                 THEN OneOrMany("panic", <<>>)
                 ELSE OneOrMany("Many", [i \in DOMAIN attribute.items |->
                                            kv(key, attribute.items[i].s)])
           [] OTHER -> OneOrMany("panic", <<>>)

\* Result<Option<CustomAttribute>, QueryError>, Result<bool, QueryError>, or a panic
Result(tag, err, some, attrs, b) ==
    [tag |-> tag, err |-> err, some |-> some, attrs |-> attrs, b |-> b]

\* mutant: an array of one value is taken for the value
get_attribute_single(sd, key) ==
    LET attrs == get_attributes(sd, key) IN
    CASE attrs.tag = "panic" -> Result("panic", "none", FALSE, <<>>, FALSE)
      [] attrs.tag = "None" -> Result("Ok", "none", FALSE, <<>>, FALSE)
      [] attrs.tag = "One" \/ Len(attrs.attrs) = 1 ->
            Result("Ok", "none", TRUE, <<attrs.attrs[1]>>, FALSE)
      [] OTHER -> Result("Err", "AttributeMultipleValues", FALSE, <<>>, FALSE)

get_attribute(sd, key) ==
    LET attrs == get_attributes(sd, key) IN
    CASE attrs.tag = "panic" -> Result("panic", "none", FALSE, <<>>, FALSE)
      [] attrs.tag = "None" -> Result("Ok", "none", FALSE, <<>>, FALSE)
      [] attrs.tag = "One" -> Result("Ok", "none", TRUE, attrs.attrs, FALSE)
      [] attrs.tag = "Many" -> Result("Err", "AttributeMultipleValues", FALSE, <<>>, FALSE)

\* CustomAttribute::is_flag
is_flag(attr) == attr.kind = "Flag"

has_flag_attribute(sd, key) ==
    LET maybe_attr == get_attribute(sd, key) IN
    IF maybe_attr.tag # "Ok" THEN maybe_attr
    ELSE IF ~maybe_attr.some THEN Result("Ok", "none", FALSE, <<>>, FALSE)
    ELSE IF is_flag(maybe_attr.attrs[1]) THEN Result("Ok", "none", FALSE, <<>>, TRUE)
    ELSE Result("Err", "AttributeNotFlag", FALSE, <<>>, FALSE)

\* ---- ComponentSchema::try_from (schema.rs 458-513) ----

\* the strings ComponentType::try_from accepts
ComponentTypes == {"sink", "source", "transform"}

ComponentType_try_from(s) ==
    IF s \in ComponentTypes THEN [ok |-> TRUE, value |-> s]
    ELSE [ok |-> FALSE, value |-> ""]

\* the values of the two component attributes in the schemas explored
ComponentValues ==
    {Json("bool", TRUE, "", <<>>), Json("bool", FALSE, "", <<>>),
     Json("string", FALSE, "sink", <<>>), Json("string", FALSE, "bogus", <<>>),
     Json("number", FALSE, "", <<>>),
     Json("array", FALSE, "", <<[str |-> TRUE, s |-> "sink"]>>)}

ComponentKeys == {"docs::component_type", "docs::component_name"}

ComponentSchemas ==
    {[bool |-> FALSE, meta |-> m, attrs |-> NoAttrs] : m \in {"none", "other"}}
    \cup UNION {[bool : {FALSE}, meta : {"object"}, attrs : [ks -> ComponentValues]] :
                   ks \in SUBSET ComponentKeys}

\* Result<ComponentSchema, SchemaError>, or a panic
InvalidComponentSchema(pointer, reason) ==
    [tag |-> "Err", pointer |-> pointer, reason |-> reason,
     component_name |-> "", component_type |-> ""]

\* get_attribute(pointer), map_err, ok_or and the match on the attribute
key_value(value, pointer) ==
    LET r == get_attribute(value, pointer) IN
    IF r.tag = "panic"
    THEN [tag |-> "panic", pointer |-> "", reason |-> "",
          component_name |-> "", component_type |-> ""]
    ELSE IF r.tag = "Err" THEN InvalidComponentSchema(pointer, r.err)
    ELSE IF ~r.some THEN InvalidComponentSchema(pointer, "attribute must be present")
    ELSE IF r.attrs[1].kind = "Flag"
         THEN InvalidComponentSchema(pointer, "expected key/value attribute")
    ELSE [tag |-> "Ok", pointer |-> "", reason |-> r.attrs[1].value,
          component_name |-> "", component_type |-> ""]

\* mutant: docs::component_name is looked at before docs::component_type
try_from_name_first(value) ==
    LET n == key_value(value, "docs::component_name")
        t == key_value(value, "docs::component_type")
    IN
    IF n.tag # "Ok" THEN n
    ELSE IF t.tag # "Ok" THEN t
    ELSE IF ~ComponentType_try_from(t.reason).ok
         THEN InvalidComponentSchema("docs::component_type",
                                     "value was not a valid component type")
    ELSE [tag |-> "Ok", pointer |-> "", reason |-> "",
          component_name |-> n.reason,
          component_type |-> ComponentType_try_from(t.reason).value]

try_from(value) ==
    LET t == key_value(value, "docs::component_type") IN
    IF t.tag # "Ok" THEN t
    ELSE IF ~ComponentType_try_from(t.reason).ok
         THEN InvalidComponentSchema("docs::component_type",
                                     "value was not a valid component type")
    ELSE LET n == key_value(value, "docs::component_name") IN
         IF n.tag # "Ok" THEN n
         ELSE [tag |-> "Ok", pointer |-> "", reason |-> "",
               component_name |-> n.reason,
               component_type |-> ComponentType_try_from(t.reason).value]

FnInputs(f) ==
    CASE f = "batched" -> BatcherInputs
      [] f = "incremental_request_builder" -> BuilderInputs
      [] f = "backoff" -> 0..MaxNexts
      [] f = "connect" -> [env : ConnectEnvs, sbs : {"None", "Some"}]
      [] f = "run" -> QueryInputs
      [] f = "run_single" -> QueryInputs
      [] f = "push" -> PushInputs
      [] f = "get_attribute" -> AttributeInputs
      [] f = "has_flag_attribute" -> AttributeInputs
      [] f = "try_from" -> ComponentSchemas

FnNames ==
    {"batched", "incremental_request_builder", "backoff", "connect", "run",
     "run_single", "push", "get_attribute", "has_flag_attribute", "try_from"}

InitFn ==
    /\ InitService /\ send_buffer_size = "None"
    /\ InitDriver(<<>>) /\ dpc = "off"
    /\ hc = NoHealthcheck
    /\ fname \in FnNames
    /\ arg \in FnInputs(fname)
    /\ fpc = "ready"
    /\ fout = <<>>

\* the function named f returns r
Return(f, r) ==
    /\ fpc = "ready" /\ fname = f
    /\ fout' = r
    /\ fpc' = "done"
    /\ UNCHANGED <<svcVars, pipeVars, hc, fname, arg>>

ApplyBatched == Return("batched", batched(arg, Positions(arg), <<>>))

ApplyBuilder ==
    Return("incremental_request_builder",
           incremental_request_builder(arg, Positions(arg), <<>>))

\* backoff.next().unwrap(), arg times on one generator (tcp.rs 118-120, 132)
ApplyBackoff == Return("backoff", [k \in 1..arg |-> backoff_next(k - 1)])

\* connector.connect().await: the result, and whether the warning about the
\* send buffer size was logged
ApplyConnect ==
    Return("connect",
           [res |-> connect(arg.env, arg.sbs),
            warned |-> set_send_buffer_size(arg.env, arg.sbs) = "warn"])

ApplyRun == Return("run", run(arg.definitions, arg.attributes))

ApplyRunSingle == Return("run_single", run_single(arg.definitions, arg.attributes))

ApplyPush == Return("push", push(arg.list, arg.item))

ApplyGetAttribute == Return("get_attribute", get_attribute(arg.schema, arg.key))

ApplyHasFlagAttribute ==
    Return("has_flag_attribute", has_flag_attribute(arg.schema, arg.key))

ApplyTryFrom == Return("try_from", try_from(arg))

NextFn ==
    \/ ApplyBatched
    \/ ApplyBuilder
    \/ ApplyBackoff
    \/ ApplyConnect
    \/ ApplyRun
    \/ ApplyRunSingle
    \/ ApplyPush
    \/ ApplyGetAttribute
    \/ ApplyHasFlagAttribute
    \/ ApplyTryFrom

SpecFn == InitFn /\ [][NextFn]_vars

Returned(f) == fname = f /\ fpc = "done"

RECURSIVE Concat(_)
Concat(qs) == IF qs = <<>> THEN <<>> ELSE Head(qs) \o Concat(Tail(qs))

(***************************************************************************)
(* C14: the batches of the Batcher with max_count = 2 and max_bytes = 10.  *)
(***************************************************************************)
BatchSizes(in, b) == [k \in DOMAIN b |-> in[b[k]].size]

\* the batches, concatenated, are the input
Lossless == Concat(fout) = Positions(arg)

RECURSIVE Accounted(_)
Accounted(rs) ==
    IF rs = <<>> THEN 0
    ELSE (IF Head(rs).ok THEN Len(Head(rs).events) ELSE Head(rs).dropped)
         + Accounted(Tail(rs))

\* C15: the numbers of events of the successful requests and the dropped
\* counts of the build errors add up to the size of the batch; the events of
\* the results, in order, are the items of the batch in order; a batch of
\* three whose second item alone fails to encode gives two events in
\* successful requests and one build error reporting one dropped event.
C15_BuilderAccounts ==
    Returned("incremental_request_builder") =>
        /\ Accounted(fout) = Len(arg)
        /\ Concat([k \in DOMAIN fout |-> fout[k].events]) = Positions(arg)
        /\ \A k \in DOMAIN fout : fout[k].events # <<>>
        /\ (Len(arg) = 3 /\ arg[1].enc /\ ~arg[2].enc /\ arg[3].enc) =>
              /\ Accounted(SelectSeq(fout, LAMBDA r : r.ok)) = 2
              /\ SelectSeq(fout, LAMBDA r : ~r.ok) = <<BuildError(<<2>>)>>
              /\ BuildError(<<2>>).dropped = 1

C15_Witness ==
    /\ Returned("incremental_request_builder")
    /\ Len(arg) = 3 /\ arg[1].enc /\ ~arg[2].enc /\ arg[3].enc
    /\ Len(fout) = 3
    /\ fout[1].ok /\ ~fout[2].ok /\ fout[3].ok
    /\ fout[2].dropped = 1

(***************************************************************************)
(* C16: the delays of the reconnect backoff.                               *)
(***************************************************************************)
\* C16: every call of next() on one generator yields a delay; the delays are
\* 2 ms, 500 ms and then 60 s for ever, each at most 60 s and none smaller
\* than the one before.
C16_BackoffDelays ==
    Returned("backoff") =>
        /\ Len(fout) = arg
        /\ \A k \in DOMAIN fout :
              /\ fout[k] = (CASE k = 1 -> 2 [] k = 2 -> 500 [] OTHER -> 60000)
              /\ fout[k] <= BackoffMaxDelay
              /\ k > 1 => fout[k - 1] <= fout[k]

C16_Witness ==
    /\ Returned("backoff")
    /\ Len(fout) >= 4
    /\ fout[3] = 60000 /\ fout[4] = 60000

(***************************************************************************)
(* C17: run ends once the input has ended and everything is drained.       *)
(***************************************************************************)
\* every request built was handled: the successful ones were called and have
\* resolved, none is in flight, and every event of a request is finalized once
Drained ==
    /\ inflight = {}
    /\ submitted = OkIdx
    /\ completed = submitted
    /\ \A k \in DOMAIN futs : futs[k].pc = "done"
    /\ \A i \in DOMAIN reqs : \A j \in DOMAIN reqs[i].events :
          Cardinality(FinalsOf(reqs[i].events[j])) = 1

\* C17: when connect attempts, sleeps and writes end and run keeps being
\* polled, run returns, and it returns only when every batch, the partial last
\* one included, has been built into requests, every successful request has
\* been submitted and has resolved, and all their events are finalized.
C17_RunTerminates ==
    /\ <>(dpc = "done")
    /\ [](dpc = "done" => Drained)

C17_Witness ==
    /\ dpc = "done"
    /\ Drained
    /\ Len(input) = 2
    /\ Len(completed) = 2
    /\ TotalFails >= 1
    /\ \E k \in DOMAIN flog : flog[k].status = "failed"

(***************************************************************************)
(* C18: the healthcheck.                                                   *)
(***************************************************************************)
HealthcheckRan == hc'.runs = hc.runs + 1

\* C18: a healthcheck makes one connect attempt and never sleeps or retries;
\* it keeps no stream; its answer is Ok exactly when resolution, socket
\* creation and the TCP connect all succeeded, and the error of the first of
\* them that failed otherwise; it leaves the connector's configuration and
\* every field of the service as they were.
C18_Step ==
    HealthcheckRan =>
        /\ hc'.attempts = 1
        /\ hc'.sleeps = 0
        /\ hc'.open = 0
        /\ hc'.res = "Ok" <=>
              (hc'.env.dns = "ok" /\ hc'.env.socket = "ok" /\ hc'.env.tcp = "ok")
        /\ hc'.res # "Ok" =>
              hc'.res = (CASE hc'.env.dns = "error" -> "FailedToResolve"
                           [] hc'.env.dns = "empty" -> "NoAddresses"
                           [] hc'.env.socket = "error" -> "FailedToConfigure"
                           [] OTHER -> "FailedToConnect")
        /\ UNCHANGED svcVars

C18_HealthcheckOneAttempt == [][C18_Step]_vars

C18_Witness ==
    /\ hc.runs = 2
    /\ hc.res = "FailedToConnect"
    /\ state = "Connected"
    /\ live = {1}

(***************************************************************************)
(* C19: a rejected send buffer size does not fail the connect.             *)
(***************************************************************************)
\* the same environment met by a connector with no send buffer size
Unconfigured(a) == [env |-> a.env, sbs |-> "None"]

\* C19: connect with a send buffer size configured returns what it returns
\* in the same environment with none configured, whether the socket accepts
\* or rejects the option; the rejection is logged, and only when resolution
\* and socket creation got that far; with none configured nothing is logged.
C19_SendBufferNonFatal ==
    Returned("connect") =>
        /\ fout.res = connect(Unconfigured(arg).env, Unconfigured(arg).sbs)
        /\ fout.res = (CASE arg.env.dns = "error" -> "FailedToResolve"
                         [] arg.env.dns = "empty" -> "NoAddresses"
                         [] arg.env.socket = "error" -> "FailedToConfigure"
                         [] arg.env.tcp = "refused" -> "FailedToConnect"
                         [] OTHER -> "Ok")
        /\ fout.warned => arg.sbs = "Some" /\ arg.env.sndbuf = "rejected"
        /\ (arg.sbs = "Some" /\ arg.env.sndbuf = "rejected"
              /\ arg.env.dns = "ok" /\ arg.env.socket = "ok") => fout.warned

C19_Witness ==
    /\ Returned("connect")
    /\ arg.sbs = "Some" /\ arg.env.sndbuf = "rejected"
    /\ fout.warned
    /\ fout.res = "Ok"

(***************************************************************************)
(* C20: the constraints of a schema query are a conjunction.               *)
(***************************************************************************)
\* the value the definition has for the key, if it has metadata with that key
HasAttr(sd, key) == ~sd.bool /\ sd.meta = "object" /\ key \in DOMAIN sd.attrs

\* strong matching: a flag constraint matches the boolean true, a key/value
\* constraint a string equal to its value or an array containing it
ConstraintMatches(sd, a) ==
    /\ HasAttr(sd, a.key)
    /\ LET v == sd.attrs[a.key] IN
       IF a.kind = "Flag" THEN v = Json("bool", TRUE, "", <<>>)
       ELSE \/ v = Json("string", FALSE, a.value, <<>>)
            \/ v.t = "array" /\ [str |-> TRUE, s |-> a.value] \in Range(v.items)

\* C20: run returns an object schema definition exactly when every
\* constraint matches it, each definition at most once; a boolean schema is
\* never returned.
C20_ConjunctionOfConstraints ==
    Returned("run") =>
        /\ NoRepeat(fout)
        /\ \A i \in DOMAIN arg.definitions :
              i \in Range(fout) <=>
                  /\ ~arg.definitions[i].bool
                  /\ \A j \in DOMAIN arg.attributes :
                        ConstraintMatches(arg.definitions[i], arg.attributes[j])

\* what run does: as C20 for the definitions whose "_metadata" is absent or a
\* JSON object, while an object schema whose "_metadata" is another JSON value
\* is always returned
C20_ExceptOtherMetadata ==
    Returned("run") =>
        /\ NoRepeat(fout)
        /\ \A i \in DOMAIN arg.definitions :
              LET sd == arg.definitions[i] IN
              i \in Range(fout) <=>
                  /\ ~sd.bool
                  /\ \/ sd.meta = "other"
                     \/ \A j \in DOMAIN arg.attributes :
                           ConstraintMatches(sd, arg.attributes[j])

C20_Witness ==
    /\ Returned("run")
    /\ Len(arg.attributes) = 1
    /\ Len(arg.definitions) = 2
    /\ arg.definitions[1].meta = "other"
    /\ arg.definitions[2].meta = "object"
    /\ fout = <<1>>

(***************************************************************************)
(* C21: run_single.                                                        *)
(***************************************************************************)
\* the definitions run pushes to matches for the query, counted one by one
Selected(a) == {i \in DOMAIN a.definitions : schema_selected(a.definitions[i], a.attributes)}

\* C21: run_single returns the one definition run returns when run returns
\* exactly one, NoMatches when run returns none, and MultipleMatches with len
\* the number of definitions run returns when it returns more than one.
C21_RunSingle ==
    Returned("run_single") =>
        LET n == Cardinality(Selected(arg)) IN
        /\ n = 1 <=> fout.ok
        /\ fout.ok => fout.schema \in Selected(arg) /\ fout.err = "none"
        /\ n = 0 <=> fout.err = "NoMatches"
        /\ n > 1 <=> fout.err = "MultipleMatches"
        /\ fout.err = "MultipleMatches" => fout.len = n
        /\ n = Len(run(arg.definitions, arg.attributes))

C21_Witness ==
    /\ Returned("run_single")
    /\ arg.attributes # <<>>
    /\ fout.err = "MultipleMatches"
    /\ fout.len = 2

(***************************************************************************)
(* C22: push appends the item.                                             *)
(***************************************************************************)
\* C22: push fails exactly when its first argument is not an array; for an
\* array the result is an array one longer, whose last element is the item,
\* also when the list already holds an equal element, and whose other
\* elements are those of the list in order; the empty list gives the
\* one-element list of the item.
C22_PushAppends ==
    Returned("push") =>
        /\ fout.ok <=> arg.list.t = "array"
        /\ fout.ok =>
              LET n == Len(arg.list.items) IN
              /\ fout.value.t = "array"
              /\ Len(fout.value.items) = n + 1
              /\ fout.value.items[n + 1] = arg.item
              /\ \A k \in 1..n : fout.value.items[k] = arg.list.items[k]
              /\ n = 0 => fout.value.items = <<arg.item>>

\* the test already_exists_item of push.rs 131-140
C22_Witness ==
    /\ Returned("push")
    /\ arg.list = Array(<<Scalar("integer", "11"), Scalar("boolean", "false"),
                          Scalar("float", "42.5")>>)
    /\ arg.item = Scalar("float", "42.5")
    /\ Len(fout.value.items) = 4
    /\ fout.value.items[4] = Scalar("float", "42.5")

(***************************************************************************)
(* C23: poll_ready in the states Connected, Disconnected and Connecting.   *)
(***************************************************************************)
\* a step of call: it creates a handoff channel
IsCall == Len(chans') = Len(chans) + 1

\* the connect_backoff the service started last has returned a stream
LastConnected == cbs # <<>> /\ cbs[Len(cbs)].conn > 0

\* C23: only call takes the service out of Connected, and a step that is not
\* a call leaves its stream and the connect_backoffs started as they are and
\* can only answer Ready; a poll in Disconnected starts exactly one
\* connect_backoff and leaves the state Connecting, or Connected when that
\* connect completed within the poll; no step in Connecting starts another
\* one; the state goes from Connecting to Connected exactly in the step in
\* which the connect_backoff started last returns its stream, which becomes
\* the service's stream.
C23_Step ==
    /\ (state = "Connected" /\ ~IsCall) =>
          /\ state' = "Connected"
          /\ stream' = stream
          /\ cbs' = cbs
          /\ live' = live
          /\ ret' \in {ret, "Ready"}
    /\ (state = "Disconnected" /\ ~IsCall /\ state' # state) =>
          /\ Len(cbs') = Len(cbs) + 1
          /\ state' \in {"Connecting", "Connected"}
          /\ state' = "Connected" <=> LastConnected'
          /\ ret' = (IF state' = "Connected" THEN "Ready" ELSE "Pending")
    /\ (state = "Disconnected" /\ ~IsCall /\ state' = state) => UNCHANGED <<cbs, fut, ret>>
    /\ state = "Connecting" =>
          /\ Len(cbs') = Len(cbs)
          /\ ~IsCall =>
                /\ state' \in {"Connecting", "Connected"}
                /\ state' = "Connected" <=> (LastConnected' /\ ~LastConnected)
                /\ state' = "Connected" =>
                      stream' = cbs'[Len(cbs')].conn /\ ret' = "Ready"

C23_Inv == state = "Connecting" => cbs # <<>> /\ ~LastConnected

C23_PollReadyFrames == [](C23_Inv) /\ [][C23_Step]_vars

C23_Witness ==
    /\ state = "Connected"
    /\ ret = "Ready"
    /\ Len(cbs) = 1
    /\ cbs[1].attempts = 3
    /\ chans = <<>>

(***************************************************************************)
(* C24: the handoff channel of a call is used once.                        *)
(***************************************************************************)
\* the write futures that hold the sender of channel k
SendersOf(k) == {i \in DOMAIN futs : futs[i].tx = k}

C24_Inv ==
    /\ Len(futs) + panics = Len(chans)
    /\ \A i \in DOMAIN futs : Cardinality(WritesOf(i)) <= 1
    /\ \A k \in DOMAIN chans :
          /\ Cardinality(SendersOf(k)) <= 1
          /\ chans[k].recvd \in {0, 1}
          /\ chans[k].val >= 0 =>
                /\ chans[k].tx = "sent"
                /\ \E i \in SendersOf(k) : Cardinality(WritesOf(i)) = 1
          /\ chans[k].recvd = 1 => chans[k].val >= 0
    /\ state = "Sending" => rx \in DOMAIN chans /\ chans[rx].recvd = 0
    /\ state # "Sending" => rx = 0

C24_Step ==
    /\ \A k \in DOMAIN chans :
          /\ chans[k].val >= 0 => chans'[k].val = chans[k].val
          /\ chans[k].tx # "alive" => chans'[k].tx = chans[k].tx
          /\ chans'[k].recvd >= chans[k].recvd
          /\ chans[k].recvd = 1 => chans'[k] = chans[k]
          /\ chans'[k].recvd # chans[k].recvd => state = "Sending" /\ rx = k
    /\ IsCall => rx' = Len(chans') /\ state' = "Sending" /\ chans'[rx'].val = -1
    /\ ~IsCall => rx' \in {rx, 0}
    /\ (state = "Sending" /\ state' # "Sending") =>
          /\ chans[rx].recvd = 0 /\ chans'[rx].recvd = 1
          /\ chans[rx].val > 0 => state' = "Connected" /\ stream' = chans[rx].val
          /\ chans[rx].val = 0 => state' \in {"Connecting", "Connected"}
                                  /\ Len(cbs') = Len(cbs) + 1

\* C24: every call has a handoff channel of its own; on a channel at most one
\* message is ever sent, by the one write of its call, and what was sent never
\* changes; the message is received at most once, by the service while it is
\* Sending on that channel, and receiving it is the only way out of Sending,
\* to Connected with the stream sent or to a new connect for None; the
\* service never listens again on a channel it has left.
C24_HandoffSingleUse == [](C24_Inv) /\ [][C24_Step]_vars

C24_Witness ==
    /\ Len(chans) = 3
    /\ chans[1].recvd = 1 /\ chans[1].val > 0
    /\ chans[2].recvd = 1 /\ chans[2].val = 0
    /\ state = "Sending" /\ rx = 3 /\ chans[3].val > 0

(***************************************************************************)
(* C25: every connect_backoff has a backoff generator of its own.          *)
(***************************************************************************)
\* the delays of each connect_backoff are the first delays of the sequence,
\* whatever the connect_backoffs before it slept
C25_Inv ==
    /\ \A k \in DOMAIN cbs :
          /\ \A j \in DOMAIN cbs[k].sleeps : cbs[k].sleeps[j] = backoff_next(j - 1)
          /\ cbs[k].sleeps # <<>> => cbs[k].sleeps[1] = BackoffBase
          /\ Len(cbs[k].sleeps) = cbs[k].fails \/ Len(cbs[k].sleeps) = cbs[k].fails - 1
    /\ state = "Connecting" => fut.n = Len(cbs[Len(cbs)].sleeps)
    /\ state # "Connecting" => fut.n = 0

\* within one connect_backoff the generator only advances; it is at its start
\* again only when a connect_backoff was left or a new one begins
C25_Step ==
    /\ \A k \in DOMAIN cbs :
          /\ Len(cbs'[k].sleeps) >= Len(cbs[k].sleeps)
          /\ SubSeq(cbs'[k].sleeps, 1, Len(cbs[k].sleeps)) = cbs[k].sleeps
          /\ k < Len(cbs) => cbs'[k].sleeps = cbs[k].sleeps
    /\ fut'.n < fut.n =>
          /\ fut'.n = 0
          /\ state' # "Connecting" \/ Len(cbs') = Len(cbs) + 1 \/ IsCall

\* C25: the delays a connect_backoff sleeps are the delays of a fresh
\* generator from its first one on, also when it was started after a failed
\* send and after earlier connect_backoffs that failed; while it runs its
\* generator only advances.
C25_BackoffPerInvocation == [](C25_Inv) /\ [][C25_Step]_vars

C25_Witness ==
    /\ Len(cbs) = 2
    /\ cbs[1].sleeps # <<>>
    /\ cbs[2].sleeps = <<BackoffBase>>
    /\ \E i \in DOMAIN futs : futs[i].res = "FailedToSend"

(***************************************************************************)
(* C26: has_flag_attribute and get_attribute.                              *)
(***************************************************************************)
AttrValue(a) == a.schema.attrs[a.key]

AttrAbsent(a) == ~HasAttr(a.schema, a.key)

AttrIsFlag(a) == HasAttr(a.schema, a.key) /\ AttrValue(a) = Json("bool", TRUE, "", <<>>)

AttrIsString(a) == HasAttr(a.schema, a.key) /\ AttrValue(a).t = "string"

AttrIsArray(a) == HasAttr(a.schema, a.key) /\ AttrValue(a).t = "array"

AllStrings(a) == \A i \in DOMAIN AttrValue(a).items : AttrValue(a).items[i].str

OkNone == Result("Ok", "none", FALSE, <<>>, FALSE)

OkSome(attr) == Result("Ok", "none", TRUE, <<attr>>, FALSE)

OkBool(b) == Result("Ok", "none", FALSE, <<>>, b)

Err(e) == Result("Err", e, FALSE, <<>>, FALSE)

\* the claim as stated, for every schema and key
C26_AsStated ==
    /\ Returned("has_flag_attribute") =>
          /\ AttrAbsent(arg) => fout = OkBool(FALSE)
          /\ AttrIsFlag(arg) => fout = OkBool(TRUE)
          /\ AttrIsString(arg) => fout = Err("AttributeNotFlag")
          /\ AttrIsArray(arg) => fout = Err("AttributeMultipleValues")
    /\ Returned("get_attribute") =>
          /\ AttrAbsent(arg) => fout = OkNone
          /\ AttrIsFlag(arg) => fout = OkSome(flag(arg.key))
          /\ AttrIsString(arg) => fout = OkSome(kv(arg.key, AttrValue(arg).s))
          /\ AttrIsArray(arg) => fout = Err("AttributeMultipleValues")

\* the schemas and keys for which get_attributes panics: "_metadata" is not
\* an object, or the attribute is false, an array with an item that is not a
\* string, or a value that is no boolean, string or array
AttrPanics(a) ==
    \/ a.schema.meta = "other"
    \/ /\ HasAttr(a.schema, a.key)
       /\ \/ AttrValue(a) = Json("bool", FALSE, "", <<>>)
          \/ AttrIsArray(a) /\ ~AllStrings(a)
          \/ AttrValue(a).t \notin {"bool", "string", "array"}

\* C26: both functions panic exactly for the schemas and keys of AttrPanics;
\* for the others has_flag_attribute returns Ok(false) for an absent
\* attribute, Ok(true) for a flag, Err(AttributeNotFlag) for a single string
\* value and Err(AttributeMultipleValues) for an array of strings of any
\* length, and get_attribute returns Ok(None), Ok(Some(flag)), Ok(Some(key/
\* value)) and Err(AttributeMultipleValues) in the same cases.
C26_AttributeResults ==
    /\ Returned("has_flag_attribute") =>
          /\ fout.tag = "panic" <=> AttrPanics(arg)
          /\ ~AttrPanics(arg) =>
                fout = (CASE AttrAbsent(arg) -> OkBool(FALSE)
                          [] AttrIsFlag(arg) -> OkBool(TRUE)
                          [] AttrIsString(arg) -> Err("AttributeNotFlag")
                          [] AttrIsArray(arg) -> Err("AttributeMultipleValues"))
    /\ Returned("get_attribute") =>
          /\ fout.tag = "panic" <=> AttrPanics(arg)
          /\ ~AttrPanics(arg) =>
                fout = (CASE AttrAbsent(arg) -> OkNone
                          [] AttrIsFlag(arg) -> OkSome(flag(arg.key))
                          [] AttrIsString(arg) -> OkSome(kv(arg.key, AttrValue(arg).s))
                          [] AttrIsArray(arg) -> Err("AttributeMultipleValues"))

C26_Witness ==
    /\ Returned("has_flag_attribute")
    /\ AttrIsArray(arg) /\ AllStrings(arg) /\ Len(AttrValue(arg).items) = 1
    /\ fout = Err("AttributeMultipleValues")

At(key) == [schema |-> arg, key |-> key]

\* the schema has a key/value attribute under the key
IsKeyValue(key) == AttrIsString(At(key))

ValidType ==
    /\ IsKeyValue("docs::component_type")
    /\ AttrValue(At("docs::component_type")).s \in ComponentTypes

\* the first attribute, in the order type then name, that is not as required
Offending ==
    IF ~ValidType THEN "docs::component_type" ELSE "docs::component_name"

Succeeds == ValidType /\ IsKeyValue("docs::component_name")

\* the claim as stated, for every schema
C27_AsStated ==
    Returned("try_from") =>
        /\ fout.tag = "Ok" <=> Succeeds
        /\ ~Succeeds => fout.tag = "Err" /\ fout.pointer = Offending
        /\ Succeeds =>
              /\ fout.component_type = AttrValue(At("docs::component_type")).s
              /\ fout.component_name = AttrValue(At("docs::component_name")).s

\* try_from panics when the first attribute it cannot accept is one on which
\* get_attributes panics
TryFromPanics == ~Succeeds /\ AttrPanics(At(Offending))

\* C27: ComponentSchema::try_from succeeds if and only if the schema has a
\* docs::component_type key/value attribute with a valid component type and a
\* docs::component_name key/value attribute, and then the name and type are
\* the attribute values; otherwise, with the first offending attribute taken in
\* the order docs::component_type, docs::component_name, it panics when
\* get_attributes panics on that attribute and returns InvalidComponentSchema
\* with that attribute as pointer when it does not.
C27_ComponentSchema ==
    Returned("try_from") =>
        /\ fout.tag = "Ok" <=> Succeeds
        /\ fout.tag = "panic" <=> TryFromPanics
        /\ ~Succeeds /\ ~TryFromPanics =>
              fout.tag = "Err" /\ fout.pointer = Offending
        /\ Succeeds =>
              /\ fout.component_type = AttrValue(At("docs::component_type")).s
              /\ fout.component_name = AttrValue(At("docs::component_name")).s

C27_Witness ==
    /\ Returned("try_from")
    /\ ValidType
    /\ AttrIsFlag(At("docs::component_name"))
    /\ fout = InvalidComponentSchema("docs::component_name",
                                     "expected key/value attribute")

(***************************************************************************)
(* C28: the state poll_ready returns with.                                 *)
(***************************************************************************)
\* the service is Sending and the handoff of a failed write waits for it
FailedHandoff ==
    state = "Sending" /\ chans[rx].val = 0 /\ chans[rx].recvd = 0

\* what every invocation of poll_ready leaves behind
C28_Step ==
    /\ ret' \in {"Ready", "Pending", "ServiceStreamChannelClosed"}
    /\ ret' = "Ready" => state' = "Connected"
    /\ ret' = "Pending" => state' \in {"Connecting", "Sending"}
    /\ ret' = "ServiceStreamChannelClosed" => state' = "Sending" /\ state = "Sending"
    /\ state' # "Disconnected"
    /\ (state = "Disconnected" \/ FailedHandoff) =>
          /\ Len(cbs') = Len(cbs) + 1
          /\ state' \in {"Connecting", "Connected"}
          /\ state' = "Connecting" <=> ret' = "Pending"
          /\ state' = "Connecting" => fut'.pc # "none"

\* between two polls the answer held by the caller stays true of the state,
\* and Disconnected is only the state before the first poll
C28_Inv ==
    /\ ret = "Ready" => state = "Connected"
    /\ ret = "Pending" => state \in {"Connecting", "Sending"}
    /\ state = "Disconnected" => ret = "none" /\ cbs = <<>> /\ chans = <<>>

\* C28: poll_ready returns Ready(Ok) only with the state Connected and Pending
\* only with the state Connecting or Sending, and never returns with the
\* state Disconnected: a poll that finds the state Disconnected, or Sending
\* with the handoff of a failed write, creates the connect_backoff future of
\* Connecting before it returns.
C28_PollReadyStates == [](C28_Inv) /\ [][PollReady => C28_Step]_vars

C28_Witness ==
    /\ state = "Connecting" /\ ret = "Pending"
    /\ Len(cbs) = 2
    /\ Len(chans) = 1 /\ chans[1].val = 0 /\ chans[1].recvd = 1
    /\ wlog # <<>> /\ ~wlog[1].ok

(***************************************************************************)
(* C29: reconnects under the poll-before-call protocol.                    *)
(***************************************************************************)
\* every call so far was made in the state Connected
PollBeforeCall == panics = 0

\* the calls whose write failed and whose handoff a later poll_ready received
FailedAndPolled == {k \in DOMAIN chans : chans[k].val = 0 /\ chans[k].recvd = 1}

Polled == state # "Disconnected"

C29_Inv ==
    PollBeforeCall =>
        /\ Len(cbs) = (IF Polled THEN 1 ELSE 0) + Cardinality(FailedAndPolled)
        /\ \A i \in DOMAIN futs :
              i > 1 => /\ futs[i - 1].res \in {"Ok", "FailedToSend"}
                       /\ futs[i].stream = futs[i - 1].stream <=> futs[i - 1].res = "Ok"

C29_Step ==
    PollBeforeCall' =>
        /\ (state = "Sending" /\ state' # "Sending" /\ chans[rx].val > 0) =>
              /\ cbs' = cbs /\ nconn' = nconn
              /\ state' = "Connected" /\ stream' = chans[rx].val
        /\ (IsCall /\ futs # <<>> /\ futs[Len(futs)].res = "Ok") =>
              futs'[Len(futs')].stream = futs[Len(futs)].stream
        /\ Len(cbs') # Len(cbs) =>
              /\ Len(cbs') = Len(cbs) + 1
              /\ state = "Disconnected" \/ FailedHandoff

\* C29: while every call is made after poll_ready answered Ready, the poll
\* that receives the stream of a successful write starts no connect_backoff
\* and opens no connection, and the next call writes to the stream of the
\* call before it exactly when that call's write succeeded; the number of
\* connect_backoff invocations is 0 before the first poll and afterwards 1
\* plus the number of calls whose write failed and whose handoff a later
\* poll_ready received.
C29_ReconnectCount == [](C29_Inv) /\ [][C29_Step]_vars

C29_Witness ==
    /\ PollBeforeCall
    /\ Len(futs) = 3
    /\ futs[1].res = "Ok" /\ futs[2].res = "FailedToSend"
    /\ futs[2].stream = futs[1].stream /\ futs[3].stream # futs[2].stream
    /\ Len(cbs) = 2

(***************************************************************************)
(* C30: a call made in a state that is not Connected.                      *)
(***************************************************************************)
\* the service waits on a handoff channel whose sender was dropped unused
SenderDropped ==
    state = "Sending" /\ chans[rx].tx = "dropped" /\ chans[rx].val = -1

C30_Step ==
    /\ (IsCall /\ state # "Connected") =>
          /\ callOut' = "panic" /\ panics' = panics + 1
          /\ futs' = futs
          /\ state' = "Sending" /\ rx' = Len(chans')
          /\ SenderDropped'
          /\ fut' = NoFut
          /\ cbs' = cbs
    /\ (IsCall /\ state = "Connected") => callOut' = "future" /\ ~SenderDropped'
    /\ (SenderDropped /\ ~IsCall) =>
          /\ SenderDropped' /\ rx' = rx
          /\ UNCHANGED <<fut, cbs, stream, nconn>>
          /\ ret' \in {ret, "ServiceStreamChannelClosed"}
    /\ (SenderDropped /\ PollReady) => ret' = "ServiceStreamChannelClosed"
    /\ (state = "Connecting" /\ PollReady) =>
          ret' \in {"Ready", "Pending"} /\ fut' # fut

C30_Inv == SenderDropped => fut = NoFut /\ ret # "Ready"

\* C30: a call made in a state that is not Connected panics after it has
\* replaced the state: the state is then Sending on a new channel whose
\* sender is dropped without a message, and the connect_backoff future of a
\* Connecting state is gone; from then on, until another call, every
\* poll_ready returns ServiceStreamChannelClosed and neither resumes the
\* connect nor starts a new one.
C30_CallNotConnected == [](C30_Inv) /\ [][C30_Step]_vars

C30_Witness ==
    /\ SenderDropped
    /\ ret = "ServiceStreamChannelClosed"
    /\ panics = 1 /\ futs = <<>>
    /\ Len(cbs) = 1 /\ cbs[1].attempts > 0 /\ cbs[1].conn = 0

(***************************************************************************)
(* C31: events that are not metrics.                                       *)
(***************************************************************************)
NonMetric(e) == input[e].kind = "log"

\* a request result with its events in place of their positions in the input
Carried(in, r) ==
    [ok |-> r.ok, len |-> r.len, dropped |-> r.dropped,
     events |-> [j \in DOMAIN r.events |-> in[r.events[j]]]]

RequestsOf(in) ==
    LET rs == request_stream(in) IN [i \in DOMAIN rs |-> Carried(in, rs[i])]

MetricsOnly(in) == SelectSeq(in, LAMBDA ev : ev.kind # "log")

RECURSIVE SumSeq(_)
SumSeq(q) == IF q = <<>> THEN 0 ELSE Head(q) + SumSeq(Tail(q))

\* C31: an event that is not a metric is in no request result, so in no
\* request passed to the service and in no build error counted by an
\* encoding-error event, and it is never finalized, as delivered, failed or
\* dropped; the request results are those of the input without its
\* non-metric events, so what the normalizer, the batcher and the request
\* builder see does not depend on them; the bytes of every call are the bytes
\* of metric events, and when run has ended the events finalized are metrics
\* only.
C31_NonMetricsDiscarded ==
    /\ \A i \in DOMAIN reqs : \A j \in DOMAIN reqs[i].events :
          ~NonMetric(reqs[i].events[j])
    /\ [i \in DOMAIN reqs |-> Carried(input, reqs[i])] = RequestsOf(MetricsOnly(input))
    /\ \A k \in DOMAIN flog : ~NonMetric(flog[k].ev)
    /\ \A e \in DOMAIN input : NonMetric(e) => FinalsOf(e) = {}
    /\ \A k \in DOMAIN futs :
          /\ k \in DOMAIN submitted
          /\ futs[k].len = Bytes(input, reqs[submitted[k]].events)
    /\ SumSeq(encErrs) =
          Cardinality({k \in DOMAIN flog : flog[k].status = "dropped"})
    /\ SumSeq(encErrs) <=
          Cardinality({e \in DOMAIN input : input[e].kind = "metric" /\ ~input[e].enc})
    /\ Len(flog) <= Cardinality({e \in DOMAIN input : input[e].kind = "metric"})

C31_Witness ==
    /\ dpc = "done"
    /\ Len(input) = 3
    /\ NonMetric(2) /\ ~NonMetric(1) /\ ~NonMetric(3)
    /\ Len(flog) = 2
    /\ \E k \in DOMAIN flog : flog[k].ev = 1 /\ flog[k].status = "delivered"
    /\ \E k \in DOMAIN flog : flog[k].ev = 3 /\ flog[k].status = "failed"
    /\ encErrs = <<>>

====
